---- MODULE Spec2Model ----
(***************************************************************************)
(* Model of vnag's MinimaxGateway (src/vnag/gateways/minimax_gateway.py):  *)
(* the extraction of "thinking" text from reasoning_details, the request   *)
(* fragment that replays it, and the extra request parameters.             *)
(*                                                                         *)
(* Python values are tagged records; a raised TypeError is the value Err.  *)
(* Strings are sequences of characters, so concatenation is \o.            *)
(***************************************************************************)
EXTENDS Integers, Sequences, FiniteSets, TLC

VARIABLES
    arg,        \* the message / delta object handed to the extraction hooks
    op,         \* the hook called last ("init" before the first call)
    result,     \* what the last call returned (Err when it raised)
    thinking,   \* the string last handed to _convert_thinking_for_request
    origin,     \* where that string came from: "none", "caller", "extracted"
    replayed,   \* TRUE when arg was rebuilt from the fragment made of thinking
    chunks,     \* streaming: the delta objects received so far
    acc,        \* streaming: the caller's accumulated thinking text
    heap,       \* concurrent use: the one source object shared by the contexts
    ctx         \* concurrent use: per context, its position and local variables

vars == <<arg, op, result, thinking, origin, replayed, chunks, acc, heap, ctx>>

---------------------------------------------------------------------------
(* Python values *)

PyNone == [k |-> "none"]
PyStr(s) == [k |-> "str", s |-> s]
PyInt(n) == [k |-> "int", n |-> n]
PyBool(b) == [k |-> "bool", b |-> b]
PyList(xs) == [k |-> "list", items |-> xs]
PyDict(f) == [k |-> "dict", d |-> f]
PyObj(f) == [k |-> "obj", attrs |-> f]
Err == [k |-> "TypeError"]

EmptyMap == [x \in {} |-> PyNone]

IsStr(v) == v.k = "str"
IsDict(v) == v.k = "dict"
IsList(v) == v.k = "list"

\* hasattr(v, name): only the objects of the model carry attributes; str, int,
\* list, dict and None have neither "text" nor "reasoning_details".
HasAttr(v, name) == v.k = "obj" /\ name \in DOMAIN v.attrs

\* bool(v)
Truthy(v) ==
    CASE v.k = "none" -> FALSE
      [] v.k = "bool" -> v.b
      [] v.k = "int"  -> v.n # 0
      [] v.k = "str"  -> v.s # <<>>
      [] v.k = "list" -> v.items # <<>>
      [] v.k = "dict" -> DOMAIN v.d # {}
      [] OTHER        -> TRUE

\* iter(v) succeeds on lists and strings and raises TypeError on the rest
Iterable(v) == v.k \in {"list", "str"}

Iter(v) ==
    IF v.k = "list" THEN v.items
    ELSE [i \in 1..Len(v.s) |-> PyStr(<<v.s[i]>>)]

\* d.get("text"): None when the key is missing
DictGet(v, key) == IF key \in DOMAIN v.d THEN v.d[key] ELSE PyNone

---------------------------------------------------------------------------
(* MinimaxGateway *)

\* variant: details without text are dropped
AppendDetailDropEmpty(data, detail) ==
    IF HasAttr(detail, "text") THEN
        IF Truthy(detail.attrs["text"])
        THEN Append(data, PyDict("text" :> detail.attrs["text"]))
        ELSE data
    ELSE IF IsDict(detail) /\ Truthy(DictGet(detail, "text")) THEN Append(data, detail)
    ELSE data

\* variant: only the text key of a mapping is kept
AppendDetailTextOnly(data, detail) ==
    IF HasAttr(detail, "text") THEN Append(data, PyDict("text" :> detail.attrs["text"]))
    ELSE IF IsDict(detail) THEN Append(data, PyDict("text" :> DictGet(detail, "text")))
    ELSE data

\* the body of the loop of _get_reasoning_data
AppendDetail(data, detail) ==
    IF HasAttr(detail, "text") THEN Append(data, PyDict("text" :> detail.attrs["text"]))
    ELSE IF IsDict(detail) THEN Append(data, detail)
    ELSE data

RECURSIVE CollectDetails(_, _)
CollectDetails(items, data) ==
    IF items = <<>> THEN data
    ELSE CollectDetails(Tail(items), AppendDetail(data, Head(items)))

\* the guard of line 25
NoReasoningDetails(obj) ==
    \/ ~HasAttr(obj, "reasoning_details")
    \/ ~Truthy(obj.attrs["reasoning_details"])

_get_reasoning_data(obj) ==
    IF NoReasoningDetails(obj) THEN PyNone
    ELSE IF ~Iterable(obj.attrs["reasoning_details"]) THEN Err
    ELSE LET data == CollectDetails(Iter(obj.attrs["reasoning_details"]), <<>>)
         IN  IF data # <<>> THEN PyList(data) ELSE PyNone

\* variant: the text is put in front
AddTextReversed(t, detail) ==
    IF t = Err THEN Err
    ELSE IF IsDict(detail) /\ Truthy(DictGet(detail, "text")) THEN
        IF IsStr(detail.d["text"]) THEN PyStr(detail.d["text"].s \o t.s) ELSE Err
    ELSE t

\* the body of the loop of _extract_thinking; t is Err once += has raised
AddText(t, detail) ==
    IF t = Err THEN Err
    ELSE IF IsDict(detail) /\ Truthy(DictGet(detail, "text")) THEN
        IF IsStr(detail.d["text"]) THEN PyStr(t.s \o detail.d["text"].s) ELSE Err
    ELSE t

RECURSIVE ThinkingLoop(_, _)
ThinkingLoop(items, t) ==
    IF items = <<>> THEN t
    ELSE ThinkingLoop(Tail(items), AddText(t, Head(items)))

_extract_thinking(message) ==
    LET reasoning_data == _get_reasoning_data(message)
    IN  IF reasoning_data = Err THEN Err
        ELSE IF ~Truthy(reasoning_data) THEN PyStr(<<>>)
        ELSE ThinkingLoop(reasoning_data.items, PyStr(<<>>))

_extract_reasoning(message) ==
    LET data == _get_reasoning_data(message)
    IN  IF data = Err THEN Err
        ELSE IF Truthy(data) THEN data ELSE PyList(<<>>)

\* variant: = in place of +=
AddTextDeltaLast(t, detail) ==
    IF t = Err THEN Err
    ELSE IF IsDict(detail) /\ Truthy(DictGet(detail, "text")) THEN
        IF IsStr(detail.d["text"]) THEN PyStr(detail.d["text"].s) ELSE Err
    ELSE t

\* variant: the text is put in front
AddTextDeltaReversed(t, detail) ==
    IF t = Err THEN Err
    ELSE IF IsDict(detail) /\ Truthy(DictGet(detail, "text")) THEN
        IF IsStr(detail.d["text"]) THEN PyStr(detail.d["text"].s \o t.s) ELSE Err
    ELSE t

\* the body of the loop of _extract_thinking_delta
AddTextDelta(t, detail) ==
    IF t = Err THEN Err
    ELSE IF IsDict(detail) /\ Truthy(DictGet(detail, "text")) THEN
        IF IsStr(detail.d["text"]) THEN PyStr(t.s \o detail.d["text"].s) ELSE Err
    ELSE t

RECURSIVE ThinkingDeltaLoop(_, _)
ThinkingDeltaLoop(items, t) ==
    IF items = <<>> THEN t
    ELSE ThinkingDeltaLoop(Tail(items), AddTextDelta(t, Head(items)))

_extract_thinking_delta(delta) ==
    LET reasoning_data == _get_reasoning_data(delta)
    IN  IF reasoning_data = Err THEN Err
        ELSE IF ~Truthy(reasoning_data) THEN PyStr(<<>>)
        ELSE ThinkingDeltaLoop(reasoning_data.items, PyStr(<<>>))

_extract_reasoning_delta(delta) ==
    LET data == _get_reasoning_data(delta)
    IN  IF data = Err THEN Err
        ELSE IF Truthy(data) THEN data ELSE PyList(<<>>)

\* variant: a second key
GetExtraBodyWithStream == PyDict(("reasoning_split" :> PyBool(TRUE)) @@ ("stream" :> PyBool(TRUE)))

_get_extra_body == PyDict("reasoning_split" :> PyBool(TRUE))

\* variant: the detail is keyed content
ConvertThinkingWrongKey(t) ==
    PyDict("reasoning_details" :> PyList(<<PyDict("content" :> t)>>))

\* variant: no detail for the empty string
ConvertThinkingSkipEmpty(t) ==
    PyDict("reasoning_details" :> PyList(IF t.s = <<>> THEN <<>> ELSE <<PyDict("text" :> t)>>))

_convert_thinking_for_request(t) ==
    PyDict("reasoning_details" :> PyList(<<PyDict("text" :> t)>>))

---------------------------------------------------------------------------
(* The inputs: bounded sets of Python values *)

MaxDetails == 2

S(str) == PyStr(str)

SeqsUpTo(set, n) == UNION {[1..m -> set] : m \in 0..n}

\* what a text field may hold: a string, None, or a number
TextVals == {S(<<>>), S(<<"a">>), S(<<"b">>), PyNone, PyInt(1)}

\* elements exposing a text attribute, and an object without one
ObjDetails == {PyObj("text" :> t) : t \in TextVals} \cup {PyObj(EmptyMap)}

\* plain mappings: with text, empty, with other keys
DictDetails ==
    {PyDict("text" :> t) : t \in TextVals}
    \cup {PyDict(EmptyMap),
          PyDict("type" :> S(<<"x">>)),
          PyDict(("text" :> S(<<"a">>)) @@ ("type" :> S(<<"x">>)))}

\* elements of neither shape
OtherElements == {S(<<"a">>)}

Elements == ObjDetails \cup DictDetails \cup OtherElements

\* what the reasoning_details attribute may hold
DetailsVals ==
    {PyList(xs) : xs \in SeqsUpTo(Elements, MaxDetails)}
    \cup {PyNone, PyInt(0), PyInt(5), S(<<"a", "b">>)}

\* every such object, an object without the attribute, None, a mapping with
\* the key reasoning_details, and a list of three details, the middle one empty
Sources ==
    {PyObj("reasoning_details" :> rd) : rd \in DetailsVals}
    \cup {PyObj(EmptyMap), PyNone,
          PyDict("reasoning_details" :> PyList(<<PyDict("text" :> S(<<"a">>))>>)),
          PyObj("reasoning_details" :>
             PyList(<<PyDict("text" :> S(<<"a">>)), PyDict(EmptyMap),
                      PyObj("text" :> S(<<"b">>))>>))}

\* the strings a caller hands to _convert_thinking_for_request
Thinkings == {S(<<>>), S(<<"a">>), S(<<"b", "a">>)}

---------------------------------------------------------------------------
(* Sequential use: one caller, one hook call per step *)

ExtractionOps ==
    {"_get_reasoning_data", "_extract_thinking", "_extract_reasoning",
     "_extract_thinking_delta", "_extract_reasoning_delta"}

Idle == [c \in {} |-> PyNone]

Init ==
    /\ arg \in Sources
    /\ op = "init"
    /\ result = PyNone
    /\ thinking = PyNone
    /\ origin = "none"
    /\ replayed = FALSE
    /\ chunks = <<>>
    /\ acc = S(<<>>)
    /\ heap = PyNone
    /\ ctx = Idle

Call(name, r) ==
    /\ op' = name
    /\ result' = r
    /\ UNCHANGED <<arg, thinking, origin, replayed, chunks, acc, heap, ctx>>

CallGetReasoningData == Call("_get_reasoning_data", _get_reasoning_data(arg))

CallExtractThinking == Call("_extract_thinking", _extract_thinking(arg))

CallExtractReasoning == Call("_extract_reasoning", _extract_reasoning(arg))

CallExtractThinkingDelta == Call("_extract_thinking_delta", _extract_thinking_delta(arg))

CallExtractReasoningDelta == Call("_extract_reasoning_delta", _extract_reasoning_delta(arg))

CallGetExtraBody == Call("_get_extra_body", _get_extra_body)

\* the caller replays a thinking string of its own
CallConvertThinking ==
    \E t \in Thinkings :
        /\ op' = "_convert_thinking_for_request"
        /\ result' = _convert_thinking_for_request(t)
        /\ thinking' = t
        /\ origin' = "caller"
        /\ replayed' = FALSE
        /\ UNCHANGED <<arg, chunks, acc, heap, ctx>>

\* the caller replays the thinking text it has just extracted from arg
CallConvertExtracted ==
    /\ op \in {"_extract_thinking", "_extract_thinking_delta"}
    /\ IsStr(result)
    /\ op' = "_convert_thinking_for_request"
    /\ result' = _convert_thinking_for_request(result)
    /\ thinking' = result
    /\ origin' = "extracted"
    /\ replayed' = FALSE
    /\ UNCHANGED <<arg, chunks, acc, heap, ctx>>

\* the fragment comes back as the message of the next turn
AsMessage(fragment) == PyObj("reasoning_details" :> fragment.d["reasoning_details"])

Replay ==
    /\ op = "_convert_thinking_for_request"
    /\ arg' = AsMessage(result)
    /\ op' = "replay"
    /\ replayed' = TRUE
    /\ UNCHANGED <<result, thinking, origin, chunks, acc, heap, ctx>>

Next ==
    \/ CallGetReasoningData
    \/ CallExtractThinking
    \/ CallExtractReasoning
    \/ CallExtractThinkingDelta
    \/ CallExtractReasoningDelta
    \/ CallGetExtraBody
    \/ CallConvertThinking
    \/ CallConvertExtracted
    \/ Replay

Spec == Init /\ [][Next]_vars

---------------------------------------------------------------------------
(* Streaming: the caller receives delta chunks and accumulates the thinking *)

MaxChunks == 3

StreamDeltas ==
    {PyObj(EmptyMap),
     PyObj("reasoning_details" :> PyNone),
     PyObj("reasoning_details" :> PyList(<<>>)),
     PyObj("reasoning_details" :> PyList(<<PyObj("text" :> S(<<"a">>))>>)),
     PyObj("reasoning_details" :> PyList(<<PyDict("text" :> S(<<"b">>))>>)),
     PyObj("reasoning_details" :> PyList(<<PyDict("text" :> S(<<>>))>>)),
     PyObj("reasoning_details" :>
        PyList(<<PyObj("text" :> S(<<"b">>)), PyDict(EmptyMap), PyDict("text" :> S(<<"a">>))>>)),
     PyObj("reasoning_details" :> PyList(<<PyDict("text" :> PyInt(1))>>))}

InitStream ==
    /\ arg = PyNone
    /\ op = "init"
    /\ result = PyNone
    /\ thinking = PyNone
    /\ origin = "none"
    /\ replayed = FALSE
    /\ chunks = <<>>
    /\ acc = S(<<>>)
    /\ heap = PyNone
    /\ ctx = Idle

\* thinking += delta_thinking in the caller; an error raised by the hook ends
\* the caller's loop
Accumulate(a, r) == IF r = Err THEN Err ELSE S(a.s \o r.s)

ReceiveChunk ==
    \E delta \in StreamDeltas :
        /\ Len(chunks) < MaxChunks
        /\ acc # Err
        /\ arg' = delta
        /\ op' = "_extract_thinking_delta"
        /\ result' = _extract_thinking_delta(delta)
        /\ acc' = Accumulate(acc, result')
        /\ chunks' = Append(chunks, delta)
        /\ UNCHANGED <<thinking, origin, replayed, heap, ctx>>

\* the response is over; the next one starts from an empty accumulator
NewStream ==
    /\ chunks # <<>>
    /\ chunks' = <<>>
    /\ acc' = S(<<>>)
    /\ op' = "init"
    /\ result' = PyNone
    /\ arg' = PyNone
    /\ UNCHANGED <<thinking, origin, replayed, heap, ctx>>

NextStream == ReceiveChunk \/ NewStream

SpecStream == InitStream /\ [][NextStream]_vars

---------------------------------------------------------------------------
(* Concurrent use: several request-handling contexts run the hooks on one   *)
(* source object, one statement at a time                                   *)

NumContexts == 2

Contexts == 1..NumContexts

ConcSources ==
    {PyObj("reasoning_details" :>
        PyList(<<PyObj("text" :> S(<<"a">>)),
                 PyDict(("text" :> S(<<"b">>)) @@ ("type" :> S(<<"x">>)))>>)),
     PyObj("reasoning_details" :> PyList(<<PyDict(EmptyMap), S(<<"a">>)>>)),
     PyObj("reasoning_details" :> PyList(<<PyDict("text" :> PyInt(1))>>)),
     PyObj("reasoning_details" :> PyInt(5)),
     PyObj(EmptyMap)}

ConcOps == ExtractionOps \cup {"_get_extra_body"}

\* a context that is not in a call
Fresh == [pc |-> "idle", op |-> "none", i |-> 0, data |-> PyNone, t |-> PyNone,
          result |-> PyNone]

InitConc ==
    /\ heap \in ConcSources
    /\ arg = heap
    /\ ctx = [c \in Contexts |-> Fresh]
    /\ op = "init"
    /\ result = PyNone
    /\ thinking = PyNone
    /\ origin = "none"
    /\ replayed = FALSE
    /\ chunks = <<>>
    /\ acc = S(<<>>)

\* variant: data is kept on self, shared by the calls that are collecting
FrameOnSelf(cs, c, frame) ==
    [x \in DOMAIN cs |->
        IF x = c THEN frame
        ELSE IF frame.pc = "collect" /\ cs[x].pc = "collect"
             THEN [cs[x] EXCEPT !.data = frame.data]
        ELSE cs[x]]

\* data, thinking and the loop position are local variables of the call: a
\* write by context c lands in c's frame alone
Frame(cs, c, frame) == [cs EXCEPT ![c] = frame]

Raise(f) == [f EXCEPT !.pc = "done", !.result = Err]

Return(f, r) == [f EXCEPT !.pc = "done", !.result = r]

\* the call: _get_extra_body returns at once, the others enter _get_reasoning_data
Invoke(c) ==
    \E o \in ConcOps :
        /\ ctx[c].pc = "idle"
        /\ ctx' = Frame(ctx, c,
                IF o = "_get_extra_body"
                THEN Return([Fresh EXCEPT !.op = o], _get_extra_body)
                ELSE [Fresh EXCEPT !.op = o, !.pc = "check"])
        /\ UNCHANGED <<arg, op, result, thinking, origin, replayed, chunks, acc, heap>>

\* lines 25-29: the guard, data = [], and the start of the iteration
CheckDetails(c) ==
    /\ ctx[c].pc = "check"
    /\ ctx' = Frame(ctx, c,
            IF NoReasoningDetails(heap) THEN [ctx[c] EXCEPT !.pc = "got", !.data = PyNone]
            ELSE IF ~Iterable(heap.attrs["reasoning_details"]) THEN Raise(ctx[c])
            ELSE [ctx[c] EXCEPT !.pc = "collect", !.data = <<>>, !.i = 1])
    /\ UNCHANGED <<arg, op, result, thinking, origin, replayed, chunks, acc, heap>>

\* lines 29-36: one round of the loop, or the return after the last one
CollectStep(c) ==
    /\ ctx[c].pc = "collect"
    /\ LET items == Iter(heap.attrs["reasoning_details"])
           f == ctx[c]
       IN  ctx' = Frame(ctx, c,
               IF f.i <= Len(items)
               THEN [f EXCEPT !.data = AppendDetail(f.data, items[f.i]), !.i = f.i + 1]
               ELSE [f EXCEPT !.pc = "got",
                              !.data = IF f.data # <<>> THEN PyList(f.data) ELSE PyNone])
    /\ UNCHANGED <<arg, op, result, thinking, origin, replayed, chunks, acc, heap>>

\* back in the hook that called _get_reasoning_data
AfterData(c) ==
    /\ ctx[c].pc = "got"
    /\ LET f == ctx[c]
       IN  ctx' = Frame(ctx, c,
               CASE f.op = "_get_reasoning_data" -> Return(f, f.data)
                 [] f.op \in {"_extract_reasoning", "_extract_reasoning_delta"} ->
                        Return(f, IF Truthy(f.data) THEN f.data ELSE PyList(<<>>))
                 [] OTHER ->
                        IF ~Truthy(f.data) THEN Return(f, S(<<>>))
                        ELSE [f EXCEPT !.pc = "concat", !.t = S(<<>>), !.i = 1])
    /\ UNCHANGED <<arg, op, result, thinking, origin, replayed, chunks, acc, heap>>

\* lines 49-52 and 70-73: one round of the loop, or the return
ConcatStep(c) ==
    /\ ctx[c].pc = "concat"
    /\ LET f == ctx[c]
           t == IF f.op = "_extract_thinking"
                THEN AddText(f.t, f.data.items[f.i])
                ELSE AddTextDelta(f.t, f.data.items[f.i])
       IN  ctx' = Frame(ctx, c,
               IF f.i > Len(f.data.items) THEN Return(f, f.t)
               ELSE IF t = Err THEN Raise(f)
               ELSE [f EXCEPT !.t = t, !.i = f.i + 1])
    /\ UNCHANGED <<arg, op, result, thinking, origin, replayed, chunks, acc, heap>>

\* the caller takes the result; the context is free for the next request
Finish(c) ==
    /\ ctx[c].pc = "done"
    /\ ctx' = Frame(ctx, c, Fresh)
    /\ UNCHANGED <<arg, op, result, thinking, origin, replayed, chunks, acc, heap>>

NextConc ==
    \E c \in Contexts :
        \/ Invoke(c)
        \/ CheckDetails(c)
        \/ CollectStep(c)
        \/ AfterData(c)
        \/ ConcatStep(c)
        \/ Finish(c)

SpecConc == InitConc /\ [][NextConc]_vars

---------------------------------------------------------------------------
(* What the specification says of a source, stated without the loops *)

BundleOps == {"_get_reasoning_data", "_extract_reasoning", "_extract_reasoning_delta"}

HasDetails(src) == HasAttr(src, "reasoning_details")

DetailsAttr(src) == src.attrs["reasoning_details"]

\* an attribute value that holds nothing
IsEmptyValue(v) ==
    \/ v.k = "none"
    \/ v.k = "list" /\ Len(v.items) = 0
    \/ v.k = "str" /\ Len(v.s) = 0
    \/ v.k = "int" /\ v.n = 0

\* the elements of the attribute, <<>> when it is missing or holds nothing
ElementsOf(src) ==
    IF HasDetails(src) /\ ~IsEmptyValue(DetailsAttr(src)) /\ Iterable(DetailsAttr(src))
    THEN Iter(DetailsAttr(src)) ELSE <<>>

\* the attribute is present, holds something, and is no sequence
NotASequence(src) ==
    HasDetails(src) /\ ~IsEmptyValue(DetailsAttr(src)) /\ ~Iterable(DetailsAttr(src))

ExposesText(e) == e.k = "obj" /\ "text" \in DOMAIN e.attrs

Recognized(e) == ExposesText(e) \/ e.k = "dict"

Normalized(e) == IF ExposesText(e) THEN PyDict("text" :> e.attrs["text"]) ELSE e

ExpectedBundle(src) ==
    LET kept == SelectSeq(ElementsOf(src), Recognized)
    IN  [i \in 1..Len(kept) |-> Normalized(kept[i])]

\* the text of an element, None when it has none
TextOf(e) ==
    IF ExposesText(e) THEN e.attrs["text"]
    ELSE IF e.k = "dict" /\ "text" \in DOMAIN e.d THEN e.d["text"]
    ELSE PyNone

NoText(e) == TextOf(e) = PyNone \/ TextOf(e) = S(<<>>)

RECURSIVE ConcatTexts(_)
ConcatTexts(items) ==
    IF items = <<>> THEN <<>>
    ELSE (IF NoText(Head(items)) THEN <<>> ELSE TextOf(Head(items)).s)
         \o ConcatTexts(Tail(items))

\* a message whose reasoning_details is a sequence of details: objects or
\* mappings whose text, when present, is a string
IsDetail(e) == e.k \in {"obj", "dict"} /\ TextOf(e).k \in {"str", "none"}

IsDetailMessage(src) ==
    /\ HasDetails(src)
    /\ DetailsAttr(src).k = "list"
    /\ \A i \in 1..Len(DetailsAttr(src).items) : IsDetail(DetailsAttr(src).items[i])

Count(items, P(_)) == Cardinality({i \in 1..Len(items) : P(items[i])})

---------------------------------------------------------------------------
(* The claims *)

\* C1: every extraction operation returns a result for every input, also for a
\* source whose reasoning_details is no sequence and for a detail whose text is
\* no string; no call ends in an error.
C1_ExtractionIsTotal == op \in ExtractionOps => result # Err

\* C2: for a message whose reasoning_details is a sequence of details (or is
\* missing), _extract_thinking returns the concatenation, in order and without
\* separator, of the non-empty texts; details without text add nothing.
C2_ThinkingIsConcatenation ==
    (op = "_extract_thinking" /\ (IsDetailMessage(arg) \/ ~HasDetails(arg)))
        => result = S(ConcatTexts(ElementsOf(arg)))

C2_Witness ==
    /\ op = "_extract_thinking"
    /\ IsDetailMessage(arg)
    /\ Len(DetailsAttr(arg).items) = 3
    /\ NoText(DetailsAttr(arg).items[2])
    /\ result = S(<<"a", "b">>)

\* C3: _extract_thinking of the message whose reasoning_details is the list
\* made by _convert_thinking_for_request(T) returns T, the empty string included.
C3_RoundTrip == (replayed /\ op = "_extract_thinking") => result = thinking

C3_Witness == replayed /\ op = "_extract_thinking" /\ result = S(<<"b", "a">>)

\* C5 as stated: every entry of a returned bundle has a text that is present
\* and non-empty.
C5_NoEmptyEntries ==
    (op \in BundleOps /\ IsList(result)) =>
        \A i \in 1..Len(result.items) :
            /\ IsDict(result.items[i])
            /\ "text" \in DOMAIN result.items[i].d
            /\ result.items[i].d["text"] \notin {PyNone, S(<<>>)}

\* C5 as amended: every entry of a returned bundle is a mapping, and the
\* entries whose text is missing or empty are kept: the bundle holds as many of
\* them as the source has recognized elements without text.
C5_EmptyEntriesKept ==
    (op \in BundleOps /\ IsList(result)) =>
        /\ \A i \in 1..Len(result.items) : IsDict(result.items[i])
        /\ Count(result.items, NoText)
             = Count(SelectSeq(ElementsOf(arg), Recognized), NoText)

C5_Witness ==
    /\ op = "_extract_reasoning"
    /\ IsList(result)
    /\ \E i \in 1..Len(result.items) : result.items[i] = PyDict(EmptyMap)
    /\ \E i \in 1..Len(result.items) : result.items[i] = PyDict("text" :> S(<<>>))

\* C6: _convert_thinking_for_request(thinking) is a mapping whose only key is
\* reasoning_details, holding exactly one detail {text: thinking}, the empty
\* string included; made of the text extracted from a bundle, that one detail
\* holds the concatenation of the bundle's non-empty texts.
C6_OneDetail ==
    op = "_convert_thinking_for_request" =>
        /\ IsDict(result)
        /\ DOMAIN result.d = {"reasoning_details"}
        /\ IsList(result.d["reasoning_details"])
        /\ Len(result.d["reasoning_details"].items) = 1
        /\ result.d["reasoning_details"].items[1] = PyDict("text" :> thinking)
        /\ origin = "extracted" => thinking = S(ConcatTexts(ElementsOf(arg)))

C6_Witness ==
    /\ op = "_convert_thinking_for_request"
    /\ origin = "extracted"
    /\ IsDetailMessage(arg)
    /\ Len(DetailsAttr(arg).items) = 2
    /\ thinking = S(<<"a", "b">>)

\* C8: _get_extra_body returns the mapping {reasoning_split: true}, with no
\* other key, whatever was called before.
C8_ExtraBody ==
    op = "_get_extra_body" =>
        /\ IsDict(result)
        /\ DOMAIN result.d = {"reasoning_split"}
        /\ result.d["reasoning_split"] = PyBool(TRUE)

C8_Witness == op = "_get_extra_body" /\ origin = "extracted" /\ replayed

\* C9: for a source whose reasoning_details is missing, empty or a sequence,
\* _get_reasoning_data is absent exactly when the attribute is missing or empty
\* or no element is recognized; otherwise it is the bundle of the recognized
\* elements in order, {text: e.text} for an element exposing text and the
\* mapping itself for a mapping; it is never an empty bundle, and
\* _extract_reasoning is that bundle, or the empty sequence when absent.
C9_Bundle ==
    ~NotASequence(arg) =>
        /\ op = "_get_reasoning_data" =>
              /\ result = PyNone <=>
                    \/ ~HasDetails(arg)
                    \/ IsEmptyValue(DetailsAttr(arg))
                    \/ \A i \in 1..Len(ElementsOf(arg)) : ~Recognized(ElementsOf(arg)[i])
              /\ result # PyNone => result = PyList(ExpectedBundle(arg))
              /\ result # PyList(<<>>)
        /\ op = "_extract_reasoning" => result = PyList(ExpectedBundle(arg))

C9_Witness ==
    /\ op = "_get_reasoning_data"
    /\ IsList(result)
    /\ Len(ElementsOf(arg)) = 2
    /\ Len(result.items) = 1
    /\ "type" \in DOMAIN result.items[1].d

\* C10: on every input the delta hooks return what the message hooks return:
\* _extract_thinking_delta what _extract_thinking does, _extract_reasoning_delta
\* what _extract_reasoning does (a raised error included).
C10_DeltaSameAsMessage ==
    /\ op = "_extract_thinking_delta" => result = _extract_thinking(arg)
    /\ op = "_extract_reasoning_delta" => result = _extract_reasoning(arg)

C10_Witness ==
    /\ op = "_extract_thinking_delta"
    /\ result = S(<<"a", "b">>)
    /\ Len(ElementsOf(arg)) = 2

\* the reasoning_details of the chunks, one after the other
RECURSIVE JoinDetails(_)
JoinDetails(ds) ==
    IF ds = <<>> THEN <<>> ELSE ElementsOf(Head(ds)) \o JoinDetails(Tail(ds))

FullMessage(ds) == PyObj("reasoning_details" :> PyList(JoinDetails(ds)))

\* C4: after every chunk the caller's accumulator holds what _extract_thinking
\* returns for the message whose reasoning_details is the concatenation of the
\* reasoning_details of the chunks received so far (when a chunk makes the
\* delta hook raise, that message makes _extract_thinking raise as well).
C4_StreamAccumulation == acc = _extract_thinking(FullMessage(chunks))

C4_Witness ==
    /\ Len(chunks) = 3
    /\ acc = S(<<"a", "b", "a">>)
    /\ ~HasDetails(chunks[2])

\* what a call returns when it runs alone
RunAlone(o, src) ==
    CASE o = "_get_reasoning_data" -> _get_reasoning_data(src)
      [] o = "_extract_thinking" -> _extract_thinking(src)
      [] o = "_extract_reasoning" -> _extract_reasoning(src)
      [] o = "_extract_thinking_delta" -> _extract_thinking_delta(src)
      [] o = "_extract_reasoning_delta" -> _extract_reasoning_delta(src)
      [] o = "_get_extra_body" -> _get_extra_body

\* C7: in every interleaving of the contexts, a call that has finished returned
\* what the same call returns when run alone on the same source, and the
\* source is as it was handed over.
C7_Stateless ==
    /\ heap = arg
    /\ \A c \in Contexts :
          ctx[c].pc = "done" => ctx[c].result = RunAlone(ctx[c].op, heap)

C7_Witness ==
    /\ ctx[1].pc = "done" /\ ctx[1].op = "_extract_thinking"
    /\ ctx[1].result = S(<<"a", "b">>)
    /\ ctx[2].pc = "collect" /\ ctx[2].i = 2

====
